---- MODULE Spec2Model ----
(***************************************************************************)
(* Model of the Uhome integration: the device capability model of          *)
(* Core/device_types.py (BaseDevice construction, send_command, update)    *)
(* and the config / options flows of u_tec/config_flow.py.                 *)
(*                                                                         *)
(* Python dictionaries are modelled as sets of <<key, value>> pairs, an    *)
(* exception leaving a call as the name of its class.                      *)
(***************************************************************************)
EXTENDS Naturals, Sequences, FiniteSets, TLC

VARIABLES
    objects,    \* device id -> outcome of BaseDevice(discovery_data, api) for that id
    finished,   \* the two most recently finished send_command/update calls, newest first
    entries,    \* the config entries of the domain
    flows,      \* config flow id -> the flow and the result of its last step
    hass_data,  \* entry ids with hass.data[DOMAIN][entry_id]["api"] registered
    options,    \* config_entry.options of the entry the options flow is opened on
    oflow       \* the options flow: its last step call and the result

devVars == <<objects, finished>>
flowVars == <<entries, flows>>
optVars == <<hass_data, options, oflow>>
vars == <<objects, finished, entries, flows, hass_data, options, oflow>>

----------------------------------------------------------------------------
(* Enumerations and the requirement table of device_types.py *)

HandleType ==
    {"utec-lock", "utec-lock-sensor", "utec-dimmer", "utec-light-rgbaw-br", "utec-switch"}

DeviceCapability ==
    {"Switch", "Lock", "BatteryLevel", "LockUser", "DoorSensor",
     "Brightness", "Color", "ColorTemperature", "Switch Level"}

HANDLE_TYPE_CAPABILITIES_NoSwitch ==
    [h \in HandleType \ {"utec-switch"} |->
        CASE h = "utec-lock" -> {"Lock", "BatteryLevel", "LockUser"}
          [] h = "utec-lock-sensor" -> {"Lock", "BatteryLevel", "DoorSensor"}
          [] h = "utec-dimmer" -> {"Switch", "Switch Level"}
          [] h = "utec-light-rgbaw-br" ->
                {"Switch", "Brightness", "Color", "ColorTemperature"}]

HANDLE_TYPE_CAPABILITIES ==
    [h \in HandleType |->
        CASE h = "utec-lock" -> {"Lock", "BatteryLevel", "LockUser"}
          [] h = "utec-lock-sensor" -> {"Lock", "BatteryLevel", "DoorSensor"}
          [] h = "utec-dimmer" -> {"Switch", "Switch Level"}
          [] h = "utec-light-rgbaw-br" ->
                {"Switch", "Brightness", "Color", "ColorTemperature"}
          [] h = "utec-switch" -> {"Switch"}]

----------------------------------------------------------------------------
(* Inputs *)

DeviceIds == {"dev1", "dev2"}

\* discovery_data["handleType"]: the members of HandleType and a string that is none
HandleTypeInputs == HandleType \cup {"utec-other"}

\* the state dictionaries a response can carry at payload.devices[i]
EntryA == {<<"id", "x">>, <<"lock", "locked">>, <<"battery", "low">>}
EntryB == {<<"id", "x">>, <<"switch", "on">>}

\* What the transport does with one request: raise, or return a response.
\*   raise              the call raises TransportError
\*   no_payload         the response is None, empty, or has no key "payload"
\*   payload            response["payload"]["devices"] is the list devices
\*   payload_no_devices response["payload"] has no key "devices"
Response(kind, devices) == [kind |-> kind, devices |-> devices]

Responses ==
    {Response(k, <<>>) : k \in {"raise", "no_payload", "payload", "payload_no_devices"}}
    \cup {Response("payload", <<EntryA>>), Response("payload", <<EntryB, EntryA>>)}

----------------------------------------------------------------------------
(* BaseDevice *)

NoObject ==
    [kind |-> "none", raised |-> "", missing |-> {}, attrs |-> {},
     handle_type |-> "", supported |-> {}, state_data |-> {}]

\* attributes defined on the class BaseDevice (properties and methods)
ClassAttrs ==
    {"id", "supported_capabilities", "has_capability", "_validate_capabilities",
     "send_command", "update"}

\* instance attributes assigned by __init__
InitAttrs ==
    {"_discovery_data", "_api", "_id", "_name", "_handle_type", "_supported_capabilities"}

\* Python attribute lookup self.<name>: instance attributes, then the class
HasAttr(obj, name) == name \in obj.attrs \cup ClassAttrs

IsSubset_Overlap(required, supported) == required \cap supported # {}

\* required_capabilities.issubset(self._supported_capabilities)
IsSubset(required, supported) == required \subseteq supported

Missing_AllRequired(required, supported) == required

\* missing = required_capabilities - self._supported_capabilities
Missing(required, supported) == required \ supported

\* _validate_capabilities: the exception it raises ("" for none) and the
\* missing set its message names
ValidateCapabilities_Skip(handle_type, supported) == [raised |-> "", missing |-> {}]

ValidateCapabilities(handle_type, supported) ==
    IF handle_type \notin DOMAIN HANDLE_TYPE_CAPABILITIES
    THEN [raised |-> "KeyError", missing |-> {}]
    ELSE LET required == HANDLE_TYPE_CAPABILITIES[handle_type] IN
         IF ~IsSubset(required, supported)
         THEN [raised |-> "DeviceError", missing |-> Missing(required, supported)]
         ELSE [raised |-> "", missing |-> {}]

\* BaseDevice.__init__: the device object, or the exception that leaves it
NewDevice(handleType, supportedCapabilities) ==
    IF handleType \notin HandleType
    THEN [NoObject EXCEPT !.kind = "raised", !.raised = "ValueError",
                          !.handle_type = handleType,
                          !.supported = supportedCapabilities]
    ELSE LET v == ValidateCapabilities(handleType, supportedCapabilities) IN
         IF v.raised # ""
         THEN [NoObject EXCEPT !.kind = "raised", !.raised = v.raised,
                               !.missing = v.missing,
                               !.handle_type = handleType,
                               !.supported = supportedCapabilities]
         ELSE [NoObject EXCEPT !.kind = "device", !.attrs = InitAttrs,
                               !.handle_type = handleType,
                               !.supported = supportedCapabilities]

Construct(d, handleType, supportedCapabilities) ==
    /\ objects[d].kind = "none"
    /\ objects' = [objects EXCEPT ![d] = NewDevice(handleType, supportedCapabilities)]
    /\ UNCHANGED <<finished, flowVars, optVars>>

\* The part of send_command / update after the request object is built:
\* evaluate self.api, await the transport, store the first device entry.
\* Yields the exception leaving the call ("" for none) and the object after it.
Request(obj, resp) ==
    IF ~HasAttr(obj, "api")
    THEN [raised |-> "AttributeError", obj |-> obj]
    ELSE IF resp.kind = "raise"
    THEN [raised |-> "TransportError", obj |-> obj]
    ELSE IF resp.kind = "no_payload"
    THEN [raised |-> "", obj |-> obj]
    ELSE IF resp.kind = "payload_no_devices"
    THEN [raised |-> "KeyError", obj |-> obj]
    ELSE IF Len(resp.devices) = 0
    THEN [raised |-> "IndexError", obj |-> obj]
    ELSE [raised |-> "",
          obj |-> [obj EXCEPT !.state_data = resp.devices[1],
                              !.attrs = @ \cup {"_state_data"}]]

\* one finished call, as its caller saw it
Call(d, op, resp, raised, before) ==
    [dev |-> d, op |-> op, resp |-> resp, raised |-> raised, before |-> before]

Record(c) == <<c>> \o (IF finished = <<>> THEN <<>> ELSE <<Head(finished)>>)

\* send_command: self.api is looked up before the transport is awaited; the
\* lookup raises on a BaseDevice, so the call never suspends and is one step.
send_command(d, resp) ==
    /\ objects[d].kind = "device"
    /\ LET r == Request(objects[d], resp) IN
       /\ objects' = [objects EXCEPT ![d] = r.obj]
       /\ finished' = Record(Call(d, "send_command", resp, r.raised, objects[d]))
    /\ UNCHANGED <<flowVars, optVars>>

\* update: as send_command, on api.query_device
update(d, resp) ==
    /\ objects[d].kind = "device"
    /\ LET r == Request(objects[d], resp) IN
       /\ objects' = [objects EXCEPT ![d] = r.obj]
       /\ finished' = Record(Call(d, "update", resp, r.raised, objects[d]))
    /\ UNCHANGED <<flowVars, optVars>>

----------------------------------------------------------------------------
(* Config flow: UhomeOAuth2FlowHandler *)

\* how many config flows are started
MaxFlows == 3

FlowIds == 1..MaxFlows

ClientIds == {"clientA", "clientB"}

\* user_input of a step: None, or the submitted form
NoInput == [given |-> FALSE, client_id |-> ""]
UserInput(cid) == [given |-> TRUE, client_id |-> cid]

NoFlow ==
    [source |-> "", step |-> "", reason |-> "", unique_id |-> "",
     client_id |-> "", confirmed |-> FALSE]

\* a flow that is neither unused nor finished
InProgress(fl) == fl.step \in {"form:user", "form:reauth_confirm", "external:auth"}

\* self._async_current_entries()
CurrentEntries == entries

\* async_step_user: the flow after the step
StepUser(f, fl, user_input) ==
    IF CurrentEntries # {}
    THEN [fl EXCEPT !.step = "abort", !.reason = "single_instance_allowed"]
    ELSE IF user_input.given
    THEN \* async_set_unique_id raises AbortFlow when another flow of the handler
         \* holds the unique id; _abort_if_unique_id_configured when an entry does
         IF \E g \in FlowIds \ {f} :
                InProgress(flows[g]) /\ flows[g].unique_id = user_input.client_id
         THEN [fl EXCEPT !.step = "abort", !.reason = "already_in_progress",
                         !.unique_id = user_input.client_id]
         ELSE IF \E e \in entries : e.unique_id = user_input.client_id
         THEN [fl EXCEPT !.step = "abort", !.reason = "already_configured",
                         !.unique_id = user_input.client_id]
         ELSE \* async_step_pick_implementation: on to the external authorize step
              [fl EXCEPT !.step = "external:auth",
                         !.unique_id = user_input.client_id,
                         !.client_id = user_input.client_id]
    ELSE [fl EXCEPT !.step = "form:user"]

\* async_step_reauth_confirm: the flow after the step
StepReauthConfirm(f, fl, user_input) ==
    IF ~user_input.given
    THEN [fl EXCEPT !.step = "form:reauth_confirm"]
    ELSE StepUser(f, [fl EXCEPT !.confirmed = TRUE], NoInput)

\* async_step_reauth(entry_data): entry_data, the entry's data mapping, is what
\* async_step_reauth_confirm receives as its user_input
StepReauth(f, fl, entry) == StepReauthConfirm(f, fl, UserInput(entry.client_id))

\* the entry async_oauth_create_entry creates
NewEntry(f, fl) == [entry_id |-> f, unique_id |-> fl.unique_id, client_id |-> fl.client_id]

\* A user starts a config flow: the flow manager calls async_step_user(None).
StartUserFlow(f) ==
    /\ flows[f].source = ""
    /\ flows' = [flows EXCEPT ![f] = StepUser(f, [NoFlow EXCEPT !.source = "user"], NoInput)]
    /\ UNCHANGED <<entries, devVars, optVars>>

\* The user submits the credentials form: async_step_user(user_input).
SubmitCredentials(f, cid) ==
    /\ flows[f].step = "form:user"
    /\ flows' = [flows EXCEPT ![f] = StepUser(f, flows[f], UserInput(cid))]
    /\ UNCHANGED <<entries, devVars, optVars>>

\* The token exchange succeeded: async_oauth_create_entry(data); the flow
\* manager stores the entry, in place of one with the same unique id.
async_oauth_create_entry(f) ==
    /\ flows[f].step = "external:auth"
    /\ flows' = [flows EXCEPT ![f].step = "create_entry"]
    /\ entries' = {e \in entries : e.unique_id # flows[f].unique_id}
                    \cup {NewEntry(f, flows[f])}
    /\ UNCHANGED <<devVars, optVars>>

\* An entry's token is rejected: the flow manager starts a reauth flow for it
\* and calls async_step_reauth(entry.data).
StartReauthFlow(f, entry) ==
    /\ flows[f].source = ""
    /\ entry \in entries
    /\ flows' = [flows EXCEPT ![f] = StepReauth(f, [NoFlow EXCEPT !.source = "reauth"], entry)]
    /\ UNCHANGED <<entries, devVars, optVars>>

----------------------------------------------------------------------------
(* Options flow: OptionsFlowHandler, opened on the entry TheEntry *)

TheEntry == "entry1"

DiscoverableIds == {"lockA", "plugB", "bulbC"}

\* user_input of an options step
NoSelection == [given |-> FALSE, selected |-> {}, step |-> ""]
Selection(S) == [given |-> TRUE, selected |-> S, step |-> ""]
MenuChoice(step) == [given |-> TRUE, selected |-> {}, step |-> step]

\* What api.discover_devices() does: raise error, or return a response
\* (none: None; no_payload: a dict without "payload"; payload: the devices).
Discovery(kind, error, devices) == [kind |-> kind, error |-> error, devices |-> devices]

Discoveries ==
    {Discovery("raise", e, {}) : e \in {"ValueError", "TypeError", "ApiError"}}
    \cup {Discovery(k, "", {}) : k \in {"none", "no_payload"}}
    \cup {Discovery("payload", "", D) : D \in SUBSET DiscoverableIds}

NoDiscovery == Discovery("", "", {})

NoOptionsFlow ==
    [handler |-> "", user_input |-> NoSelection, resp |-> NoDiscovery,
     api |-> FALSE, result |-> "", id |-> "", raised |-> "", errors |-> {},
     offered |-> {}, data |-> {}, locals |-> {}, discovered_devices |-> {}]

\* the try block of async_step_select_devices (lines 222-233): the exception
\* leaving it, the local names bound, errors, and self.discovered_devices
Discover(resp) ==
    LET caught(r) == [r EXCEPT !.errors = {<<"base", "cannot_connect">>},
                               !.locals = @ \cup {"discovered_devices"}]
        r0 == [raised |-> "", errors |-> {}, locals |-> {"errors"},
               discovered_devices |-> {}]
        r1 == [r0 EXCEPT !.locals = @ \cup {"response"}]
    IN  IF resp.kind = "raise"
        THEN IF resp.error \in {"ValueError", "TypeError"}
             THEN caught(r0)
             ELSE [r0 EXCEPT !.raised = resp.error]
        ELSE IF resp.kind = "none"
        THEN caught(r1)     \* "payload" in None raises TypeError
        ELSE IF resp.kind = "no_payload"
        THEN r1
        ELSE [r1 EXCEPT !.discovered_devices = resp.devices]

\* line 236, all_devices = {discovered_devices}: the exception it raises. The
\* local name is bound only by the except clause, and then to a dict, which
\* is no set element.
AllDevices(t) ==
    IF "discovered_devices" \notin t.locals
    THEN [raised |-> "UnboundLocalError", value |-> {}]
    ELSE [raised |-> "TypeError", value |-> {}]

\* async_step_select_devices: the options flow after the step
StepSelectDevices(user_input, resp) ==
    LET call == [NoOptionsFlow EXCEPT !.handler = "select_devices",
                                      !.user_input = user_input]
    IN  IF TheEntry \notin hass_data
        THEN [call EXCEPT !.result = "abort", !.id = "no_api_conf"]
        ELSE LET t == Discover(resp)
                 c == [call EXCEPT !.api = TRUE, !.resp = resp, !.errors = t.errors,
                                   !.locals = t.locals,
                                   !.discovered_devices = t.discovered_devices]
             IN  IF t.raised # ""
                 THEN [c EXCEPT !.result = "raised", !.raised = t.raised]
                 ELSE LET all_devices == AllDevices(t) IN
                      IF all_devices.raised # ""
                      THEN [c EXCEPT !.result = "raised", !.raised = all_devices.raised]
                      ELSE IF user_input.given
                      THEN [c EXCEPT !.result = "create_entry",
                                     !.data = {<<"selected_devices", user_input.selected>>}]
                      ELSE [c EXCEPT !.result = "form", !.id = "select_devices",
                                     !.offered = all_devices.value]

\* async_step_init: the menu, or the form named by the submitted input
StepInit(user_input) ==
    LET call == [NoOptionsFlow EXCEPT !.handler = "init", !.user_input = user_input]
    IN  IF ~user_input.given
        THEN [call EXCEPT !.result = "menu", !.id = "init"]
        ELSE [call EXCEPT !.result = "form", !.id = user_input.step]

\* async_step_api_reauth_opt
StepApiReauthOpt(user_input) ==
    LET call == [NoOptionsFlow EXCEPT !.handler = "api_reauth_opt",
                                      !.user_input = user_input]
    IN  IF user_input.given
        THEN [call EXCEPT !.result = "create_entry"]
        ELSE [call EXCEPT !.result = "form", !.id = "user"]

\* The integration's setup registers (its unload removes) the entry's API object.
SetupEntry ==
    /\ hass_data' = IF TheEntry \in hass_data THEN {} ELSE {TheEntry}
    /\ UNCHANGED <<options, oflow, devVars, flowVars>>

\* a step that ends in create_entry stores its data as the entry's options
Store(o) == IF o.result = "create_entry" THEN o.data ELSE options

async_step_init(user_input) ==
    /\ oflow' = StepInit(user_input)
    /\ UNCHANGED <<options, hass_data, devVars, flowVars>>

async_step_select_devices(user_input, resp) ==
    /\ oflow' = StepSelectDevices(user_input, resp)
    /\ options' = Store(oflow')
    /\ UNCHANGED <<hass_data, devVars, flowVars>>

async_step_api_reauth_opt(user_input) ==
    /\ oflow' = StepApiReauthOpt(user_input)
    /\ options' = Store(oflow')
    /\ UNCHANGED <<hass_data, devVars, flowVars>>

----------------------------------------------------------------------------
(* Specifications *)

Init ==
    /\ objects = [d \in DeviceIds |-> NoObject]
    /\ finished = <<>>
    /\ entries = {}
    /\ flows = [f \in FlowIds |-> NoFlow]
    /\ hass_data = {}
    /\ options = {}
    /\ oflow = NoOptionsFlow

\* the supported sets the discovery data of the devices report
ReportedSets(h) ==
    IF h \notin HandleType
    THEN {{}, DeviceCapability}
    ELSE LET required == HANDLE_TYPE_CAPABILITIES[h] IN
         {required, DeviceCapability, {}}

\* Devices are constructed and commanded.
Next ==
    \/ \E d \in DeviceIds, h \in HandleTypeInputs :
          \E S \in ReportedSets(h) : Construct(d, h, S)
    \/ \E d \in DeviceIds, resp \in Responses : send_command(d, resp)
    \/ \E d \in DeviceIds, resp \in Responses : update(d, resp)

Spec == Init /\ [][Next]_vars

\* The constructor alone, on every handle type and every reported set.
CtorNext ==
    \E d \in DeviceIds :
        /\ \A o \in DeviceIds : objects[o].kind = "none"
        /\ \E h \in HandleTypeInputs, S \in SUBSET DeviceCapability : Construct(d, h, S)

CtorSpec == Init /\ [][CtorNext]_vars

\* Config flows of the domain.
FlowNext ==
    \/ \E f \in FlowIds : StartUserFlow(f)
    \/ \E f \in FlowIds, cid \in ClientIds : SubmitCredentials(f, cid)
    \/ \E f \in FlowIds : async_oauth_create_entry(f)
    \/ \E f \in FlowIds, e \in entries : StartReauthFlow(f, e)

FlowSpec == Init /\ [][FlowNext]_vars

\* The options flow of one entry.
OptionsNext ==
    \/ SetupEntry
    \/ \E u \in {NoSelection} \cup {MenuChoice(s) : s \in {"select_devices", "api_reauth_opt"}} :
          async_step_init(u)
    \/ \E u \in {NoSelection} \cup {Selection(S) : S \in SUBSET DiscoverableIds},
          resp \in Discoveries : async_step_select_devices(u, resp)
    \/ \E u \in {NoSelection, Selection({})} : async_step_api_reauth_opt(u)

OptionsSpec == Init /\ [][OptionsNext]_vars

----------------------------------------------------------------------------
(* Properties *)

Required(h) == HANDLE_TYPE_CAPABILITIES[h]

\* the construction attempts made on a member of HandleType
Attempts == {d \in DeviceIds : objects[d].kind # "none" /\ objects[d].handle_type \in HandleType}

\* C1: constructing a BaseDevice with handle type h and supported set S succeeds
\* if and only if S is a superset of HANDLE_TYPE_CAPABILITIES[h]; so it succeeds
\* on exactly the required set and on the required set with extra capabilities.
C1_ConstructIffSuperset ==
    \A d \in Attempts :
        LET o == objects[d] IN
        /\ (o.kind = "device") <=> (Required(o.handle_type) \subseteq o.supported)
        /\ o.supported = Required(o.handle_type) => o.kind = "device"
        /\ o.kind = "device" => o.raised = ""

C1_Witness ==
    \E d \in DeviceIds :
        /\ objects[d].kind = "device"
        /\ objects[d].handle_type = "utec-switch"
        /\ objects[d].supported = {"Switch", "Brightness"}

\* C2: for every handle type h and required capability c, construction on the
\* required set without c fails with DeviceError, the missing set of the error
\* is exactly required minus supported (it holds c and nothing the device
\* supports), and no device object results.
C2_MissingNamed ==
    \A d \in Attempts :
        LET o == objects[d]
            required == Required(o.handle_type)
        IN  /\ \A c \in required :
                  o.supported = required \ {c} =>
                      /\ o.kind = "raised"
                      /\ o.raised = "DeviceError"
                      /\ c \in o.missing
            /\ o.raised = "DeviceError" =>
                  /\ o.kind = "raised"
                  /\ o.attrs = {}
                  /\ o.missing = required \ o.supported
                  /\ o.missing \cap o.supported = {}

C2_Witness ==
    \E d \in DeviceIds :
        /\ objects[d].raised = "DeviceError"
        /\ objects[d].handle_type = "utec-lock"
        /\ objects[d].supported = {"Lock", "BatteryLevel"}
        /\ objects[d].missing = {"LockUser"}

\* a response that carries a payload with a first device entry
HasEntry(resp) == resp.kind = "payload" /\ Len(resp.devices) > 0

\* C3: after send_command or update completes with a response that contains a
\* payload, the cached state is exactly the first entry of
\* response["payload"]["devices"], whatever it was before.
C3_StateReplaced ==
    finished # <<>> =>
        LET c == Head(finished) IN
        HasEntry(c.resp) =>
            /\ c.raised = ""
            /\ "_state_data" \in objects[c.dev].attrs
            /\ objects[c.dev].state_data = c.resp.devices[1]

\* C4: when the transport call of send_command or update fails, or the payload
\* is malformed, that failure is what the caller sees raised, and the cached
\* state is as before the call.
C4_FailurePropagates ==
    finished # <<>> =>
        LET c == Head(finished) IN
        /\ c.resp.kind = "raise" => c.raised = "TransportError"
        /\ c.resp.kind = "payload_no_devices" => c.raised = "KeyError"
        /\ (c.resp.kind = "payload" /\ Len(c.resp.devices) = 0) => c.raised = "IndexError"
        /\ c.raised # "" => objects[c.dev] = c.before

\* C5: every constructed device supports the capabilities its handle type
\* requires, in every state send_command and update lead to: they change neither
\* the handle type nor the supported set, and never raise the validation error.
C5_SupportedSuperset ==
    [][\A d \in DeviceIds :
          /\ objects'[d].kind = "device" =>
                Required(objects'[d].handle_type) \subseteq objects'[d].supported
          /\ objects[d].kind = "device" =>
                /\ objects'[d].kind = "device"
                /\ objects'[d].handle_type = objects[d].handle_type
                /\ objects'[d].supported = objects[d].supported
          /\ \A i \in 1..Len(finished') : finished'[i].raised # "DeviceError"]_vars

C5_Witness ==
    /\ Len(finished) = 2
    /\ finished[1].op = "send_command"
    /\ finished[2].op = "update"
    /\ objects[finished[1].dev].supported # Required(objects[finished[1].dev].handle_type)

\* C6: the requirement table has an entry for every member of HandleType, each
\* a non-empty set of DeviceCapability members, so the lookup in validation
\* never fails for a valid handle type.
C6_TableTotal ==
    /\ DOMAIN HANDLE_TYPE_CAPABILITIES = HandleType
    /\ \A h \in DOMAIN HANDLE_TYPE_CAPABILITIES :
          /\ HANDLE_TYPE_CAPABILITIES[h] # {}
          /\ HANDLE_TYPE_CAPABILITIES[h] \subseteq DeviceCapability
    /\ \A d \in Attempts : objects[d].raised # "KeyError"

C6_Witness ==
    \E d \in Attempts :
        /\ objects[d].handle_type = "utec-switch"
        /\ objects[d].kind = "device"

\* C7: two operations on one device whose responses both carry a payload leave
\* the cached state at the payload of the one that completed last, and leave
\* the cached state of every other device alone.
C7_LastResponseWins ==
    (/\ Len(finished) = 2
     /\ finished[1].dev = finished[2].dev
     /\ HasEntry(finished[1].resp)
     /\ HasEntry(finished[2].resp)) =>
        /\ objects[finished[1].dev].state_data = finished[1].resp.devices[1]
        /\ finished[1].raised = ""
        /\ finished[2].raised = ""

\* C8: at most one config entry of the integration exists in every reachable
\* state, also when two user flows passed the existing-entry check of
\* async_step_user before either created its entry.
C8_SingleInstance == Cardinality(entries) <= 1

\* C9: with the API object registered and a discovery payload returned,
\* async_step_select_devices shows the select_devices form of the discovered
\* devices when it has no input, and creates the options entry whose
\* selected_devices is the submitted selection when it has.
C9_SelectDevices ==
    (/\ oflow.handler = "select_devices"
     /\ oflow.api
     /\ oflow.resp.kind = "payload") =>
        IF oflow.user_input.given
        THEN /\ oflow.result = "create_entry"
             /\ oflow.data = {<<"selected_devices", oflow.user_input.selected>>}
             /\ options = oflow.data
        ELSE /\ oflow.result = "form"
             /\ oflow.id = "select_devices"
             /\ oflow.offered = oflow.resp.devices

\* C10: once the reauth dialog is confirmed (async_step_reauth_confirm is called
\* with an input that is not None), the reauth flow is at the user step showing
\* the client-credentials form.
C10_ReauthReachesUserForm ==
    \A f \in FlowIds :
        (flows[f].source = "reauth" /\ flows[f].confirmed) => flows[f].step = "form:user"

====
